---- MODULE Spec2Model ----
(***************************************************************************)
(* Model of the essay workflow of RBrouq/agentic_system:                   *)
(*   src/src/runner.py         run_essay_graph (entry point)               *)
(*   src/src/graph_builder.py  build_graph (topology, checkpointer)        *)
(*   src/src/nodes.py          stage nodes, stop nodes and routers         *)
(*                                                                         *)
(* A StateRecord is a Python dict whose keys may be absent.  It is         *)
(* modelled as a function whose DOMAIN is the set of keys present, so      *)
(* that "absent", "empty string" and "False" stay three different things.  *)
(* The compiled graph has no interrupt: every stop node has an edge to     *)
(* END, so each graph.invoke(initial_state, config) runs the graph from    *)
(* START to END on the thread's checkpointed channel values overwritten    *)
(* by the keys of initial_state.                                           *)
(***************************************************************************)
EXTENDS Integers, Sequences, FiniteSets, TLC

VARIABLES
    store,      \* thread_id -> checkpointed channel values (the StateRecord)
    pc,         \* caller -> "idle", a node name, "END" (call in flight) or
                \* "error" (the latest call raised)
    inp,        \* caller -> arguments of the current / latest call
    executed,   \* caller -> nodes executed by the current / latest call
    prevHalt,   \* caller -> last node executed by the call before it
    script,     \* caller -> how many calls of the four-call HITL script of
                \* run_essay_graph's docstring the thread has followed so
                \* far from its creation (OffScript once it has left it)
    local,      \* caller -> channel values graph.invoke holds in memory
    heard,      \* caller -> what the collaborator (language model, web
                \* search) answered in the latest super-step, <<>> if none
    raised,     \* caller -> node in which the latest call raised or, while
                \* a retry (the same call again) runs, the node in which
                \* the call it retries raised; "none" otherwise
    thread      \* caller -> thread_id of the current / latest call: `arg` as
                \* the caller passed it, `id` as config["configurable"] has it

vars == <<store, pc, inp, executed, prevHalt, script, local, heard, raised,
          thread>>

(***************************************************************************)
(* Bounds                                                                  *)
(***************************************************************************)
\* number of optional feedback / approval arguments one call may supply
MaxSupplied == 1

\* number of thread ids uuid4 generates
MaxGenerated == 2

Threads == {"t1"}

\* the identifiers str(uuid.uuid4()) yields, in the order of their generation
Generated == { "uuid-" \o ToString(i) : i \in 1..MaxGenerated }

\* keys of the checkpoint store
ThreadIds == Threads \cup Generated \cup {""}

\* Callers of run_essay_graph.  A thread's own name stands for its first
\* caller; "t1b" is a second caller working on thread "t1" (another request
\* handler or process that passes the same thread_id).
Callers == Threads \cup {"t1b"}
ThreadOf(c) == IF c \in Threads THEN c ELSE "t1"

(***************************************************************************)
(* Python values                                                           *)
(***************************************************************************)
\* Optional[T]: None is the empty tuple, a value v is <<v>>
None == <<>>
Some(v) == <<v>>
IsNone(o) == o = <<>>

\* the empty dict
EmptyDict == [k \in {} |-> ""]

\* dict.get(key, default)
Get(d, key, default) == IF key \in DOMAIN d THEN d[key] ELSE default

\* dict update: keys of u overwrite (LangGraph's LastValue channel write)
Merge(d, u) ==
    [k \in (DOMAIN d) \cup (DOMAIN u) |-> IF k \in DOMAIN u THEN u[k] ELSE d[k]]

\* str operations on the characters of a text
StartsWith(s, p) == Len(s) >= Len(p) /\ SubSeq(s, 1, Len(p)) = p
Contains(s, sub) ==
    \E i \in 1..(Len(s) - Len(sub) + 1) : SubSeq(s, i, i + Len(sub) - 1) = sub
IsSpace(c) == c \in {" ", "\n", "\t"}

\* str.strip(): drop leading and trailing white space
RECURSIVE Strip(_)
Strip(s) ==
    IF s = "" THEN ""
    ELSE IF IsSpace(SubSeq(s, 1, 1)) THEN Strip(SubSeq(s, 2, Len(s)))
    ELSE IF IsSpace(SubSeq(s, Len(s), Len(s))) THEN Strip(SubSeq(s, 1, Len(s) - 1))
    ELSE s

\* str.upper() / str.lower() on the letters the model's texts use
LowerLetters == "abcdefghijklmnopqrstuvwxyz"
UpperLetters == "ABCDEFGHIJKLMNOPQRSTUVWXYZ"
MapChar(c, from, to) ==
    IF \E i \in 1..Len(from) : SubSeq(from, i, i) = c
    THEN LET i == CHOOSE j \in 1..Len(from) : SubSeq(from, j, j) = c
         IN SubSeq(to, i, i)
    ELSE c
RECURSIVE MapStr(_, _, _)
MapStr(s, from, to) ==
    IF s = "" THEN ""
    ELSE MapChar(SubSeq(s, 1, 1), from, to) \o MapStr(SubSeq(s, 2, Len(s)), from, to)
Upper(s) == MapStr(s, LowerLetters, UpperLetters)
Lower(s) == MapStr(s, UpperLetters, LowerLetters)

\* line.split(":", 1)[1] for a line that contains a colon
AfterColon(line) ==
    LET i == CHOOSE j \in 1..Len(line) :
                 /\ SubSeq(line, j, j) = ":"
                 /\ \A k \in 1..(j - 1) : SubSeq(line, k, k) # ":"
    IN SubSeq(line, i + 1, Len(line))

\* truth value of a str: empty is falsy, anything else is truthy
Truthy(s) == s # ""

\* truth value of an Optional[str] argument (None and "" are falsy)
TruthyOpt(o) == (~IsNone(o)) /\ Truthy(o[1])

\* texts the language model may return for a prompt of the given kind; the
\* writer is asked again on every call and need not repeat itself
call_llm(kind) ==
    IF kind = "draft" THEN {"draft A", "draft B"} ELSE {kind \o " text"}


(***************************************************************************)
(* Replies of the collaborators                                            *)
(***************************************************************************)
\* replies of the language model to the classification prompt
ClassifyReplies ==
    {"essay", "open_question", "I think ESSAY is best", "just answer please",
     " OPEN_QUESTION\n", "Open question", "essay, not open_question",
     "a question"}

\* replies of the language model to the analysis prompt, as their lines
AnalyzeReplies ==
    { <<"TOPIC: topic1", "INSTRUCTIONS: formal", "two pages",
        "CLARIFICATION_QUESTIONS:", "- q1", "- q2">>,
      <<"Sorry, I cannot help.">> }

(***************************************************************************)
(* Stage nodes: StateRecord -> partial StateRecord (src/src/nodes.py)      *)
(***************************************************************************)
\* classify_intent that classifies again on every execution
classify_intent_again(state, reply) ==
    LET res == Lower(Strip(reply))
    IN [mode |-> IF Contains(res, "essay") THEN "essay"
                 ELSE IF Contains(res, "open") THEN "open_question"
                 ELSE "essay"]

\* classify_intent that does not lower-case the reply
classify_intent_case_sensitive(state, reply) ==
    IF "mode" \in DOMAIN state /\ state["mode"] \in {"essay", "open_question"}
    THEN EmptyDict
    ELSE LET res == Strip(reply)
         IN [mode |-> IF Contains(res, "essay") THEN "essay"
                      ELSE IF Contains(res, "open") THEN "open_question"
                      ELSE "essay"]

\* classify_intent: no-op when mode is set, else one-word classification
classify_intent(state, reply) ==
    IF "mode" \in DOMAIN state /\ state["mode"] \in {"essay", "open_question"}
    THEN EmptyDict
    ELSE LET res == Lower(Strip(reply))
         IN [mode |-> IF Contains(res, "essay") THEN "essay"
                      ELSE IF Contains(res, "open") THEN "open_question"
                      ELSE "essay"]

\* the section parser of analyze_topic: acc is (topic, instructions,
\* clarification_questions, current_section) after the lines before i
RECURSIVE ParseAnalysis(_, _, _)
ParseAnalysis(lines, i, acc) ==
    IF i > Len(lines) THEN acc
    ELSE LET line == lines[i]
             upper == Strip(Upper(line))
             nxt ==
               IF StartsWith(upper, "TOPIC:")
               THEN [acc EXCEPT !.section = "topic",
                                !.topic = Strip(AfterColon(line))]
               ELSE IF StartsWith(upper, "INSTRUCTIONS:")
               THEN [acc EXCEPT !.section = "instructions",
                                !.instructions = Strip(AfterColon(line))]
               ELSE IF StartsWith(upper, "CLARIFICATION_QUESTIONS")
               THEN [acc EXCEPT !.section = "clarifications"]
               ELSE IF acc.section = "instructions" /\ Truthy(Strip(line))
               THEN [acc EXCEPT !.instructions = @ \o " " \o Strip(line)]
               ELSE IF acc.section = "clarifications" /\ Truthy(Strip(line))
               THEN [acc EXCEPT !.questions = @ \o line \o "\n"]
               ELSE acc
         IN ParseAnalysis(lines, i + 1, nxt)

\* analyze_topic that also stores the normalised request as user_input
analyze_topic_normalising(state, analysis) ==
    LET parsed == ParseAnalysis(analysis, 1,
                      [topic |-> "", instructions |-> "", questions |-> "",
                       section |-> "none"])
        topic == IF ~Truthy(parsed.topic) THEN Strip(state["user_input"])
                 ELSE parsed.topic
    IN [topic |-> topic,
        user_input |-> topic,
        instructions |-> parsed.instructions,
        clarification_questions |-> Strip(parsed.questions)]

analyze_topic(state, analysis) ==
    LET parsed == ParseAnalysis(analysis, 1,
                      [topic |-> "", instructions |-> "", questions |-> "",
                       section |-> "none"])
        topic == IF ~Truthy(parsed.topic) THEN Strip(state["user_input"])
                 ELSE parsed.topic
    IN [topic |-> topic,
        instructions |-> parsed.instructions,
        clarification_questions |-> Strip(parsed.questions)]

\* plan_essay that marks the fresh outline as not validated yet
plan_essay_invalidating(state, plan) == [plan |-> plan, plan_validated |-> FALSE]

plan_essay(state, plan) == [plan |-> plan]

\* plan_human_review that validates the plan only when it has feedback
plan_human_review_feedback_only(state, improved_plan) ==
    LET feedback == Strip(Get(state, "plan_feedback", ""))
    IN IF Truthy(feedback)
       THEN [plan |-> improved_plan, plan_validated |-> TRUE]
       ELSE EmptyDict

\* plan_human_review that does not strip the feedback
plan_human_review_unstripped(state, improved_plan) ==
    LET feedback == Get(state, "plan_feedback", "")
    IN IF Truthy(feedback)
       THEN [plan |-> improved_plan, plan_validated |-> TRUE]
       ELSE [plan_validated |-> TRUE]

\* plan_human_review: revise the plan when feedback is present; validated
\* in both cases
plan_human_review(state, improved_plan) ==
    LET feedback == Strip(Get(state, "plan_feedback", ""))
    IN IF Truthy(feedback)
       THEN [plan |-> improved_plan, plan_validated |-> TRUE]
       ELSE [plan_validated |-> TRUE]

\* outcomes of the web search: results, or the exception it raised
SearchOutcomes ==
    {[ok |-> TRUE, text |-> "results"],
     [ok |-> FALSE, text |-> "ImportError: no tavily"],
     [ok |-> FALSE, text |-> "ValueError: no API key"]}

\* the marker research_agentic appends when the web search raised
FailureMarker(error) ==
    "[Note: Tavily web search failed or is not configured. Error: "
        \o error \o "]"

\* research_agentic whose fallback notes carry no failure marker
research_agentic_unmarked(state, search, notes_llm) ==
    LET clarification_answers == Get(state, "clarification_answers", "")
        notes == IF search.ok
                 THEN "Web research (Tavily) results: " \o search.text
                 ELSE notes_llm
    IN [research_notes |-> notes,
        clarifications_used |-> Truthy(Strip(clarification_answers))]

\* research_agentic: web search first, language-model notes as the fallback
research_agentic(state, search, notes_llm) ==
    LET clarification_answers == Get(state, "clarification_answers", "")
        notes == IF search.ok
                 THEN "Web research (Tavily) results: " \o search.text
                 ELSE notes_llm \o "\n\n" \o FailureMarker(search.text)
    IN [research_notes |-> notes,
        clarifications_used |-> Truthy(Strip(clarification_answers))]

write_draft(state, draft) == [draft |-> draft]

\* critic_node that also rewrites the draft it criticises
critic_node_redrafting(state, critique) ==
    [critique |-> critique, draft |-> critique]

\* critic_node that also records a rejection of the draft
critic_node_rejecting(state, critique) ==
    [critique |-> critique, draft_approved |-> FALSE]

critic_node(state, critique) == [critique |-> critique]

\* save_to_db that does not record that it saved
save_to_db_unmarked(state) == EmptyDict

save_to_db(state) == [saved |-> TRUE]

\* finalize_essay that polishes the draft whether or not there is feedback
finalize_essay_always_polishing(state, polished) ==
    [final_draft |-> polished,
     final_approved |-> TRUE,
     answer |-> polished]

\* finalize_essay: polish through the model when final feedback is present,
\* else pass the draft through
finalize_essay(state, polished) ==
    LET draft == Get(state, "draft", "")
        ff == Get(state, "final_feedback", "")
        final_feedback == IF Truthy(ff) THEN ff
                          ELSE Get(state, "human_feedback", "")
        final_draft == IF Truthy(final_feedback) THEN polished ELSE draft
    IN [final_draft |-> final_draft,
        final_approved |-> TRUE,
        answer |-> final_draft]

basic_llm_response(state, answer) == [answer |-> answer]

\* HITL stop nodes
stop_after_analyze(state) == EmptyDict

\* stop_after_plan_review that marks the plan as not validated yet
stop_after_plan_review_invalidating(state) == [plan_validated |-> FALSE]

stop_after_plan_review(state) == EmptyDict

\* stop_after_critic that already records the essay as saved
stop_after_critic_saving(state) == [saved |-> TRUE]

stop_after_critic(state) == EmptyDict

(***************************************************************************)
(* Routers (src/src/nodes.py)                                              *)
(***************************************************************************)
\* route_from_classify that looks for the label "open" instead of the mode
route_from_classify_open(state) ==
    IF Get(state, "mode", "open_question") = "open"
    THEN "basic_reply" ELSE "analyze"

route_from_classify(state) ==
    IF Get(state, "mode", "open_question") = "essay"
    THEN "analyze" ELSE "basic_reply"

\* route_from_analyze that looks at the skip flag only
route_from_analyze_skip_only(state) ==
    LET skip == Get(state, "skip_clarification", FALSE)
    IN IF ~skip THEN "stop_after_analyze" ELSE "plan"

\* route_from_analyze that does not strip the answers
route_from_analyze_unstripped(state) ==
    LET answers == Get(state, "clarification_answers", "")
        skip == Get(state, "skip_clarification", FALSE)
    IN IF ~Truthy(answers) /\ ~skip THEN "stop_after_analyze" ELSE "plan"

route_from_analyze(state) ==
    LET answers == Strip(Get(state, "clarification_answers", ""))
        skip == Get(state, "skip_clarification", FALSE)
    IN IF ~Truthy(answers) /\ ~skip THEN "stop_after_analyze" ELSE "plan"

\* route_from_plan_review that lets only the skip flag through
route_from_plan_review_skip_only(state) ==
    LET skip == Get(state, "skip_plan_review", FALSE)
    IN IF ~skip THEN "stop_after_plan_review" ELSE "research"

route_from_plan_review(state) ==
    LET feedback == Strip(Get(state, "plan_feedback", ""))
        skip == Get(state, "skip_plan_review", FALSE)
    IN IF ~Truthy(feedback) /\ ~skip THEN "stop_after_plan_review"
       ELSE "research"

\* route_from_critic that lets only an explicit approval through
route_from_critic_approved_only(state) ==
    LET skip == Get(state, "skip_draft_review", FALSE)
        approved == "draft_approved" \in DOMAIN state /\ state["draft_approved"]
    IN IF ~skip /\ ~approved THEN "stop_after_critic" ELSE "save"

\* route_from_critic that forgets the skip flag
route_from_critic_no_skip(state) ==
    IF "draft_approved" \notin DOMAIN state THEN "stop_after_critic" ELSE "save"

\* route_from_critic that sends an approved draft straight to finalize
route_from_critic_to_finalize(state) ==
    LET skip == Get(state, "skip_draft_review", FALSE)
    IN IF ~skip /\ "draft_approved" \notin DOMAIN state
       THEN "stop_after_critic" ELSE "finalize"

route_from_critic(state) ==
    LET skip == Get(state, "skip_draft_review", FALSE)
        draft_approved_unset == "draft_approved" \notin DOMAIN state
    IN IF ~skip /\ draft_approved_unset THEN "stop_after_critic" ELSE "save"

(***************************************************************************)
(* The compiled graph (src/src/graph_builder.py, build_graph)              *)
(***************************************************************************)
StageNodes == {"classify", "analyze", "plan", "plan_review", "research",
               "write", "critic", "save", "finalize", "basic_reply"}
GateNodes == {"stop_after_analyze", "stop_after_plan_review",
              "stop_after_critic"}

\* label maps of the conditional edges
ClassifyEdges == [analyze |-> "analyze", basic_reply |-> "basic_reply"]
\* label map of analyze whose stop label leads straight to END
AnalyzeEdges_ending == [plan |-> "plan", stop_after_analyze |-> "END"]

AnalyzeEdges == [plan |-> "plan", stop_after_analyze |-> "stop_after_analyze"]
PlanReviewEdges ==
    [research |-> "research", stop_after_plan_review |-> "stop_after_plan_review"]
\* label map of critic that sends an unapproved draft back to the writer
CriticEdges_revising == [save |-> "save", stop_after_critic |-> "write"]

CriticEdges == [save |-> "save", stop_after_critic |-> "stop_after_critic"]

\* the nodes with conditional edges, their routers and their label maps
RouterNodes == {"classify", "analyze", "plan_review", "critic"}

Router(node, state) ==
    CASE node = "classify"    -> route_from_classify(state)
      [] node = "analyze"     -> route_from_analyze(state)
      [] node = "plan_review" -> route_from_plan_review(state)
      [] node = "critic"      -> route_from_critic(state)

Edges(node) ==
    CASE node = "classify"    -> ClassifyEdges
      [] node = "analyze"     -> AnalyzeEdges
      [] node = "plan_review" -> PlanReviewEdges
      [] node = "critic"      -> CriticEdges

\* a conditional edge: the label is looked up in the map; a label the map
\* does not have makes the run raise
Branch(edges, label) ==
    IF label \in DOMAIN edges THEN edges[label] ELSE "error"

\* the node that follows `node` once it has written its update into `state`
NextNode(node, state) ==
    CASE node = "START"       -> "classify"
      [] node \in RouterNodes -> Branch(Edges(node), Router(node, state))
      [] node = "plan"        -> "plan_review"
      [] node = "research"    -> "write"
      [] node = "write"       -> "critic"
      [] node = "save"        -> "finalize"
      [] OTHER                -> "END"

(***************************************************************************)
(* Arguments of run_essay_graph (src/src/runner.py)                        *)
(***************************************************************************)
UserInputs == {"Write about X", "Write about Y"}
TextArgs == {None, Some(""), Some("text")}
ApprovalArgs == {None, Some(TRUE), Some(FALSE)}

OptionalArgNames == {"clarification_answers", "plan_feedback",
                     "draft_feedback_human", "draft_approved", "final_feedback"}
SkipArgNames == {"skip_clarification", "skip_plan_review", "skip_draft_review"}

\* the optional arguments a call passes (anything but the default None)
Supplied(a) == { f \in OptionalArgNames : ~IsNone(a[f]) }

\* The arguments of the calls the model makes.  Three families keep the
\* state space small.  GateCallArgs exercises the gates: answers, plan
\* feedback, the approval decision and every combination of skip flags.
GateCallArgs ==
    { a \in [user_input : {"Write about X"},
             clarification_answers : {None, Some("text")},
             plan_feedback : {None, Some("text")},
             draft_feedback_human : {None},
             draft_approved : ApprovalArgs,
             final_feedback : {None},
             skip_clarification : BOOLEAN,
             skip_plan_review : BOOLEAN,
             skip_draft_review : BOOLEAN] :
        Cardinality(Supplied(a)) <= MaxSupplied }

\* MergeCallArgs exercises the merge of the text arguments: the four
\* feedback texts, empty or not, with the skip flags all set or all clear.
MergeCallArgs ==
    { a \in [user_input : {"Write about X"},
             clarification_answers : TextArgs,
             plan_feedback : TextArgs,
             draft_feedback_human : TextArgs,
             draft_approved : {None},
             final_feedback : TextArgs,
             skip_clarification : BOOLEAN,
             skip_plan_review : BOOLEAN,
             skip_draft_review : BOOLEAN] :
        /\ Cardinality(Supplied(a)) <= MaxSupplied
        /\ a.skip_clarification = a.skip_plan_review
        /\ a.skip_plan_review = a.skip_draft_review }

\* PromptCallArgs exercises user_input: a later call may pass another
\* request than the first one.
PromptCallArgs ==
    { a \in [user_input : UserInputs,
             clarification_answers : {None, Some("text")},
             plan_feedback : {None, Some("text")},
             draft_feedback_human : {None},
             draft_approved : {None},
             final_feedback : {None},
             skip_clarification : BOOLEAN,
             skip_plan_review : BOOLEAN,
             skip_draft_review : BOOLEAN] :
        /\ Cardinality(Supplied(a)) <= MaxSupplied
        /\ a.skip_clarification = a.skip_plan_review
        /\ a.skip_plan_review = a.skip_draft_review }

\* BlankCallArgs exercises blank texts: answers and plan feedback may be
\* whitespace only.
BlankCallArgs ==
    { a \in [user_input : {"Write about X"},
             clarification_answers : {None, Some(" "), Some("text")},
             plan_feedback : {None, Some(" "), Some("text")},
             draft_feedback_human : {None},
             draft_approved : {None},
             final_feedback : {None},
             skip_clarification : BOOLEAN,
             skip_plan_review : BOOLEAN,
             skip_draft_review : BOOLEAN] :
        /\ Cardinality(Supplied(a)) <= MaxSupplied
        /\ a.skip_clarification = a.skip_plan_review
        /\ a.skip_plan_review = a.skip_draft_review }

\* FailCallArgs are the arguments of the calls made while the language
\* model may fail, RaceCallArgs those of two callers sharing a thread.
FailCallArgs ==
    { a \in [user_input : {"Write about X"},
             clarification_answers : {None, Some("text")},
             plan_feedback : {None, Some("text")},
             draft_feedback_human : {None},
             draft_approved : {None},
             final_feedback : {None},
             skip_clarification : BOOLEAN,
             skip_plan_review : BOOLEAN,
             skip_draft_review : BOOLEAN] :
        /\ Cardinality(Supplied(a)) <= MaxSupplied
        /\ a.skip_clarification = a.skip_plan_review
        /\ a.skip_plan_review = a.skip_draft_review }

RaceCallArgs ==
    { a \in [user_input : {"Write about X"},
             clarification_answers : {None},
             plan_feedback : {None},
             draft_feedback_human : {None},
             draft_approved : {None},
             final_feedback : {None},
             skip_clarification : BOOLEAN,
             skip_plan_review : BOOLEAN,
             skip_draft_review : BOOLEAN] :
        /\ a.skip_draft_review => a.skip_plan_review
        /\ a.skip_plan_review => a.skip_clarification }

\* ApproveCallArgs exercises the approval decision: the caller passes a
\* draft_approved or none, the gates before it are passed by skip flags.
ApproveCallArgs ==
    { a \in [user_input : {"Write about X"},
             clarification_answers : {None},
             plan_feedback : {None},
             draft_feedback_human : {None},
             draft_approved : ApprovalArgs,
             final_feedback : {None},
             skip_clarification : BOOLEAN,
             skip_plan_review : BOOLEAN,
             skip_draft_review : BOOLEAN] :
        /\ a.skip_draft_review => a.skip_plan_review
        /\ a.skip_plan_review => a.skip_clarification }

\* StickyCallArgs exercises later calls on stored answers: answers and
\* plan feedback are omitted, empty, whitespace only or a text.
StickyCallArgs ==
    { a \in [user_input : {"Write about X"},
             clarification_answers : {None, Some(""), Some(" "), Some("text")},
             plan_feedback : {None, Some(""), Some(" "), Some("text")},
             draft_feedback_human : {None},
             draft_approved : {None},
             final_feedback : {None},
             skip_clarification : BOOLEAN,
             skip_plan_review : BOOLEAN,
             skip_draft_review : BOOLEAN] :
        /\ Cardinality(Supplied(a)) <= MaxSupplied
        /\ a.skip_draft_review = a.skip_plan_review
        /\ a.skip_plan_review => a.skip_clarification }

\* arguments recorded for a thread that was never called
NoArgs == [user_input |-> "", clarification_answers |-> None,
           plan_feedback |-> None, draft_feedback_human |-> None,
           draft_approved |-> None, final_feedback |-> None,
           skip_clarification |-> FALSE, skip_plan_review |-> FALSE,
           skip_draft_review |-> FALSE]

\* initial_state that tests the text arguments with "is not None"
initial_state_not_none(a) ==
    LET s0 == [user_input |-> a.user_input]
        s1 == IF ~IsNone(a.clarification_answers)
              THEN Merge(s0, [clarification_answers |-> a.clarification_answers[1]])
              ELSE s0
        s2 == IF ~IsNone(a.plan_feedback)
              THEN Merge(s1, [plan_feedback |-> a.plan_feedback[1]])
              ELSE s1
        s3 == IF ~IsNone(a.draft_feedback_human)
              THEN Merge(s2, [draft_feedback_human |-> a.draft_feedback_human[1]])
              ELSE s2
        s4 == IF ~IsNone(a.draft_approved)
              THEN Merge(s3, [draft_approved |-> a.draft_approved[1]])
              ELSE s3
        s5 == IF ~IsNone(a.final_feedback)
              THEN Merge(s4, [final_feedback |-> a.final_feedback[1]])
              ELSE s4
    IN Merge(s5, [skip_clarification |-> a.skip_clarification,
                  skip_plan_review |-> a.skip_plan_review,
                  skip_draft_review |-> a.skip_draft_review])

\* the dict run_essay_graph hands to graph.invoke
initial_state(a) ==
    LET s0 == [user_input |-> a.user_input]
        s1 == IF TruthyOpt(a.clarification_answers)
              THEN Merge(s0, [clarification_answers |-> a.clarification_answers[1]])
              ELSE s0
        s2 == IF TruthyOpt(a.plan_feedback)
              THEN Merge(s1, [plan_feedback |-> a.plan_feedback[1]])
              ELSE s1
        s3 == IF TruthyOpt(a.draft_feedback_human)
              THEN Merge(s2, [draft_feedback_human |-> a.draft_feedback_human[1]])
              ELSE s2
        s4 == IF ~IsNone(a.draft_approved)
              THEN Merge(s3, [draft_approved |-> a.draft_approved[1]])
              ELSE s3
        s5 == IF TruthyOpt(a.final_feedback)
              THEN Merge(s4, [final_feedback |-> a.final_feedback[1]])
              ELSE s4
    IN Merge(s5, [skip_clarification |-> a.skip_clarification,
                  skip_plan_review |-> a.skip_plan_review,
                  skip_draft_review |-> a.skip_draft_review])

(***************************************************************************)
(* Actions                                                                 *)
(***************************************************************************)
Init ==
    /\ store = [k \in ThreadIds |-> EmptyDict]
    /\ pc = [c \in Callers |-> "idle"]
    /\ inp = [c \in Callers |-> NoArgs]
    /\ executed = [c \in Callers |-> <<>>]
    /\ prevHalt = [c \in Callers |-> "START"]
    /\ script = [c \in Callers |-> 0]
    /\ local = [c \in Callers |-> EmptyDict]
    /\ heard = [c \in Callers |-> <<>>]
    /\ raised = [c \in Callers |-> "none"]
    /\ thread = [c \in Callers |-> [arg |-> None, id |-> ""]]

\* the last node a finished call executed ("START" before the first call)
LastNode(t) ==
    IF executed[t] = <<>> THEN "START" ELSE executed[t][Len(executed[t])]

\* the call passes none of the skip flags (they keep their default False)
NoSkips(a) == \A f \in SkipArgNames : ~a[f]

\* the call passes exactly the optional argument f, with a non-empty value,
\* and no skip flag
SuppliesOnly(a, f) ==
    /\ Supplied(a) = {f}
    /\ IF f = "draft_approved" THEN a[f] = Some(TRUE) ELSE TruthyOpt(a[f])
    /\ NoSkips(a)

\* recursion_limit that run_essay_graph passes to graph.invoke (config.py)
DEFAULT_RECURSION_LIMIT == 50

\* the four calls of the docstring of run_essay_graph, answers variant
OffScript == 9
ScriptStep(k, a) ==
    IF k = 0 /\ Supplied(a) = {} /\ NoSkips(a) THEN 1
    ELSE IF k = 1 /\ SuppliesOnly(a, "clarification_answers") THEN 2
    ELSE IF k = 2 /\ SuppliesOnly(a, "plan_feedback") THEN 3
    ELSE IF k = 3 /\ SuppliesOnly(a, "draft_approved") THEN 4
    ELSE OffScript

\* str(uuid.uuid4()): an identifier no thread has yet (none is left once
\* MaxGenerated of them are in use)
uuid4 ==
    LET used == Cardinality({ g \in Generated : store[g] # EmptyDict })
    IN IF used < MaxGenerated THEN {"uuid-" \o ToString(used + 1)} ELSE {}

\* thread_id that is replaced only when it is None
thread_id_none_only(thread_arg) ==
    IF ~IsNone(thread_arg) THEN {thread_arg[1]} ELSE uuid4

\* the thread_id run_essay_graph puts in the config: the caller's, or a
\* generated one when the caller's is None or empty ("if not thread_id")
thread_id(thread_arg) ==
    IF TruthyOpt(thread_arg) THEN {thread_arg[1]} ELSE uuid4

\* run_essay_graph up to graph.invoke: the thread's checkpointed values
\* are loaded, the input dict is written over them, the result is
\* checkpointed and the graph is entered at START.  Nothing in
\* run_essay_graph or build_graph makes a caller wait for another one.
InvokeAs(t, thread_arg, a) ==
  \E id \in thread_id(thread_arg) :
    /\ pc[t] \in {"idle", "error"}
    /\ inp' = [inp EXCEPT ![t] = a]
    /\ thread' = [thread EXCEPT ![t] = [arg |-> thread_arg, id |-> id]]
    /\ local' = [local EXCEPT ![t] = Merge(store[id], initial_state(a))]
    /\ store' = [store EXCEPT ![id] = local'[t]]
    /\ pc' = [pc EXCEPT ![t] = NextNode("START", local'[t])]
    /\ prevHalt' = [prevHalt EXCEPT ![t] = LastNode(t)]
    /\ executed' = [executed EXCEPT ![t] = <<>>]
    /\ script' = [script EXCEPT ![t] = ScriptStep(@, a)]
    /\ heard' = [heard EXCEPT ![t] = <<>>]
    /\ raised' = [raised EXCEPT ![t] = IF a = inp[t] THEN @ ELSE "none"]

\* a call that passes the thread_id the caller works on
Invoke(t, a) == InvokeAs(t, Some(ThreadOf(t)), a)

\* a super-step that saves the checkpoint under the thread the caller works
\* on by default, whatever thread_id the call has in its config
RunNode_default_thread(t, node, update, said) ==
    /\ pc[t] = node
    /\ local' = [local EXCEPT ![t] = Merge(@, update)]
    /\ store' = [store EXCEPT ![ThreadOf(t)] = local'[t]]
    /\ executed' = [executed EXCEPT ![t] = Append(@, node)]
    /\ pc' = [pc EXCEPT ![t] = NextNode(node, local'[t])]
    /\ heard' = [heard EXCEPT ![t] = said]
    /\ UNCHANGED <<inp, prevHalt, script, raised, thread>>

\* one super-step: the node's update is written to the channels of the
\* call, the checkpoint is saved and the outgoing edge is followed; `said`
\* is what the node's collaborator answered
RunNode(t, node, update, said) ==
    /\ pc[t] = node
    /\ local' = [local EXCEPT ![t] = Merge(@, update)]
    /\ store' = [store EXCEPT ![thread[t].id] = local'[t]]
    /\ executed' = [executed EXCEPT ![t] = Append(@, node)]
    /\ pc' = [pc EXCEPT ![t] = NextNode(node, local'[t])]
    /\ heard' = [heard EXCEPT ![t] = said]
    /\ UNCHANGED <<inp, prevHalt, script, raised, thread>>

\* the node calls the language model when it runs on `state`
\* (research calls it only in its except branch)
CallsLLM(node, state) ==
    CASE node = "classify" ->
             Get(state, "mode", "") \notin {"essay", "open_question"}
      [] node = "plan_review" -> Truthy(Strip(Get(state, "plan_feedback", "")))
      [] node = "finalize" ->
             \/ Truthy(Get(state, "final_feedback", ""))
             \/ Truthy(Get(state, "human_feedback", ""))
      [] node \in {"analyze", "plan", "research", "write", "critic",
                   "basic_reply"} -> TRUE
      [] OTHER -> FALSE

\* what a node that may call the language model heard from it
Said(node, state, reply) == IF CallsLLM(node, state) THEN <<reply>> ELSE <<>>

Classify(t) ==
    \E reply \in ClassifyReplies :
        RunNode(t, "classify", classify_intent(local[t], reply),
                Said("classify", local[t], reply))

Analyze(t) ==
    \E analysis \in AnalyzeReplies :
        RunNode(t, "analyze", analyze_topic(local[t], analysis), <<analysis>>)

Plan(t) ==
    \E plan \in call_llm("plan") :
        RunNode(t, "plan", plan_essay(local[t], plan), <<plan>>)

PlanReview(t) ==
    \E improved \in call_llm("revised plan") :
        RunNode(t, "plan_review", plan_human_review(local[t], improved),
                Said("plan_review", local[t], improved))

Research(t) ==
    \E search \in SearchOutcomes :
        \E notes_llm \in (IF search.ok THEN {""} ELSE call_llm("notes")) :
            RunNode(t, "research", research_agentic(local[t], search, notes_llm),
                    <<search>>)

Write(t) ==
    \E draft \in call_llm("draft") :
        RunNode(t, "write", write_draft(local[t], draft), <<draft>>)

Critic(t) ==
    \E critique \in call_llm("critique") :
        RunNode(t, "critic", critic_node(local[t], critique), <<critique>>)

Save(t) == RunNode(t, "save", save_to_db(local[t]), <<>>)

Finalize(t) ==
    \E polished \in call_llm("final") :
        RunNode(t, "finalize", finalize_essay(local[t], polished),
                Said("finalize", local[t], polished))

BasicReply(t) ==
    \E answer \in call_llm("answer") :
        RunNode(t, "basic_reply", basic_llm_response(local[t], answer),
                <<answer>>)

StopAfterAnalyze(t) ==
    RunNode(t, "stop_after_analyze", stop_after_analyze(local[t]), <<>>)

StopAfterPlanReview(t) ==
    RunNode(t, "stop_after_plan_review", stop_after_plan_review(local[t]), <<>>)

StopAfterCritic(t) ==
    RunNode(t, "stop_after_critic", stop_after_critic(local[t]), <<>>)

\* graph.invoke returns once END is reached
Return(t) ==
    /\ pc[t] = "END"
    /\ pc' = [pc EXCEPT ![t] = "idle"]
    /\ raised' = [raised EXCEPT ![t] = "none"]
    /\ UNCHANGED <<store, inp, executed, prevHalt, script, local, heard, thread>>

\* the record run_essay_graph returns: the final channel values plus thread_id
Returned(t) == Merge(local[t], [thread_id |-> thread[t].id])

\* call_llm has no try/except and neither have the nodes outside the web
\* search of research: an exception of the language model leaves the node,
\* graph.invoke and run_essay_graph.  The super-step writes nothing.
LLMFail(t) ==
    /\ pc[t] \in StageNodes
    /\ CallsLLM(pc[t], local[t])
    /\ pc' = [pc EXCEPT ![t] = "error"]
    /\ raised' = [raised EXCEPT ![t] = pc[t]]
    /\ heard' = [heard EXCEPT ![t] = <<>>]
    /\ UNCHANGED <<store, inp, executed, prevHalt, script, local, thread>>

\* the fields run_agent copies from the result into its JSON response
ExportedFields ==
    {"thread_id", "mode", "topic", "instructions", "clarification_questions",
     "clarification_answers", "plan", "plan_validated", "research_notes",
     "draft", "critique", "final_draft", "answer", "saved", "final_approved"}

\* result.get(f) for each exported field (None when the field is absent)
Exported(result) ==
    [f \in ExportedFields |->
        IF f \in DOMAIN result THEN Some(result[f]) ELSE None]

\* run_agent that lets the exception of run_essay_graph through
run_agent_uncaught(t) ==
    IF pc[t] = "error"
    THEN [kind |-> "exception", status_code |-> 500,
          content |-> [node |-> raised[t]]]
    ELSE [kind |-> "json", status_code |-> 200,
          content |-> Exported(Returned(t))]

\* run_agent (src/app.py): the response to the request whose call of
\* run_essay_graph has ended; an exception becomes {"error": str(e)} with
\* status 500 (the message is modelled by the node that raised)
run_agent(t) ==
    IF pc[t] = "error"
    THEN [kind |-> "json", status_code |-> 500,
          content |-> [error |-> raised[t]]]
    ELSE [kind |-> "json", status_code |-> 200,
          content |-> Exported(Returned(t))]

\* one step of the graph run of thread t
RunGraph(t) ==
    \/ Classify(t)
    \/ Analyze(t)
    \/ Plan(t)
    \/ PlanReview(t)
    \/ Research(t)
    \/ Write(t)
    \/ Critic(t)
    \/ Save(t)
    \/ Finalize(t)
    \/ BasicReply(t)
    \/ StopAfterAnalyze(t)
    \/ StopAfterPlanReview(t)
    \/ StopAfterCritic(t)
    \/ Return(t)

Next ==
    \E t \in Threads :
        \/ \E a \in GateCallArgs : Invoke(t, a)
        \/ RunGraph(t)

Spec == Init /\ [][Next]_vars

NextMerge ==
    \E t \in Threads :
        \/ \E a \in MergeCallArgs : Invoke(t, a)
        \/ RunGraph(t)

SpecMerge == Init /\ [][NextMerge]_vars

NextPrompt ==
    \E t \in Threads :
        \/ \E a \in PromptCallArgs : Invoke(t, a)
        \/ RunGraph(t)

SpecPrompt == Init /\ [][NextPrompt]_vars

NextBlank ==
    \E t \in Threads :
        \/ \E a \in BlankCallArgs : Invoke(t, a)
        \/ RunGraph(t)

SpecBlank == Init /\ [][NextBlank]_vars

NextApprove ==
    \E t \in Threads :
        \/ \E a \in ApproveCallArgs : Invoke(t, a)
        \/ RunGraph(t)

SpecApprove == Init /\ [][NextApprove]_vars

NextSticky ==
    \E t \in Threads :
        \/ \E a \in StickyCallArgs : Invoke(t, a)
        \/ RunGraph(t)

SpecSticky == Init /\ [][NextSticky]_vars

NextFail ==
    \E t \in Threads :
        \/ \E a \in FailCallArgs : Invoke(t, a)
        \/ RunGraph(t)
        \/ LLMFail(t)

SpecFail == Init /\ [][NextFail]_vars

\* Two callers pass the same thread_id and nothing orders their calls.
\* Each caller makes one call; the second caller passes no skip flag.
NextRace ==
    \E c \in Callers :
        \/ \E a \in RaceCallArgs :
               /\ executed[c] = <<>>
               /\ c \notin Threads => NoSkips(a)
               /\ Invoke(c, a)
        \/ RunGraph(c)

SpecRace == Init /\ [][NextRace]_vars

\* Two callers work on distinct threads and nothing orders their calls: one
\* passes the thread_id it works on, the other lets run_essay_graph
\* generate one.  Each caller makes one call.
NextIsolate ==
    \E c \in Callers :
        \/ \E a \in RaceCallArgs :
               /\ executed[c] = <<>>
               /\ c \in Threads
               /\ Invoke(c, a)
        \/ \E a \in RaceCallArgs :
               /\ executed[c] = <<>>
               /\ c \notin Threads
               /\ InvokeAs(c, None, a)
        \/ RunGraph(c)

SpecIsolate == Init /\ [][NextIsolate]_vars

\* the thread_id arguments of a caller that starts runs without a thread_id
\* and continues them with the identifier it got back
ThreadIdArgs ==
    {None, Some("")} \cup { Some(g) : g \in { h \in Generated : store[h] # EmptyDict } }

\* One caller works on the thread it names and on threads it lets
\* run_essay_graph create; on the latter it passes no skip flag.
NextThread ==
    \E c \in Threads :
        \/ \E a \in RaceCallArgs : Invoke(c, a)
        \/ \E thread_arg \in ThreadIdArgs : \E a \in RaceCallArgs :
               NoSkips(a) /\ InvokeAs(c, thread_arg, a)
        \/ RunGraph(c)

SpecThread == Init /\ [][NextThread]_vars

\* Records a router may be handed.  A field is absent or has one of the
\* listed values; the routers read a field that is None as they read an
\* absent one (state.get(f) or "", bool(state.get(f, False)),
\* state.get(f, None) is None), so None is covered by absence.
OptField(f, values) == {EmptyDict} \cup { [k \in {f} |-> v] : v \in values }

RouterStates ==
    { Merge(m, Merge(ca, Merge(pf, Merge(da, Merge(sc, Merge(sp, sd)))))) :
        m \in OptField("mode", {"essay", "open_question", "", "Essay"}),
        ca \in OptField("clarification_answers", {"", " ", "text"}),
        pf \in OptField("plan_feedback", {"", " ", "text"}),
        da \in OptField("draft_approved", BOOLEAN),
        sc \in OptField("skip_clarification", BOOLEAN),
        sp \in OptField("skip_plan_review", BOOLEAN),
        sd \in OptField("skip_draft_review", BOOLEAN) }

\* the channel values of a run are any of these records
InitRouter ==
    /\ store = [k \in ThreadIds |-> EmptyDict]
    /\ pc = [c \in Callers |-> "idle"]
    /\ inp = [c \in Callers |-> NoArgs]
    /\ executed = [c \in Callers |-> <<>>]
    /\ prevHalt = [c \in Callers |-> "START"]
    /\ script = [c \in Callers |-> 0]
    /\ heard = [c \in Callers |-> <<>>]
    /\ raised = [c \in Callers |-> "none"]
    /\ thread = [c \in Callers |-> [arg |-> None, id |-> ""]]
    /\ local \in { [c \in Callers |-> IF c \in Threads THEN r ELSE EmptyDict] :
                     r \in RouterStates }

\* the conditional edge that leaves `node` is evaluated on the record
ApplyRouter(t, node) ==
    /\ pc[t] = "idle"
    /\ pc' = [pc EXCEPT ![t] = NextNode(node, local[t])]
    /\ executed' = [executed EXCEPT ![t] = <<node>>]
    /\ UNCHANGED <<store, inp, prevHalt, script, local, heard, raised, thread>>

NextRouter == \E t \in Threads : \E node \in RouterNodes : ApplyRouter(t, node)

SpecRouter == InitRouter /\ [][NextRouter]_vars

(***************************************************************************)
(* analyze_topic on its own: any request text, any shape of reply          *)
(***************************************************************************)
\* request texts as the form field delivers them (app.py passes the prompt
\* on as typed)
AnalyzeInputs ==
    {"Write about X", " Write about X\n", "  ", "topic: X"}

\* replies of the language model to the analysis prompt, as their lines:
\* well formed, unparseable, empty, an empty TOPIC section, and replies
\* that lack the other sections
AnalyzeTexts ==
    AnalyzeReplies \cup
    { <<>>,
      <<"TOPIC:  ", "INSTRUCTIONS: formal">>,
      <<"topic: lower case">>,
      <<"Here you go", "CLARIFICATION_QUESTIONS:", "- q1">>,
      <<"INSTRUCTIONS:", "short", "TOPIC:">> }

\* the record analyze_topic runs on: the request, the topic an earlier call
\* may have left, and fields analyze_topic does not write
AnalyzeStates ==
    { Merge([user_input |-> u], Merge(tp, Merge(m, ca))) :
        u \in AnalyzeInputs,
        tp \in OptField("topic", {"old topic"}),
        m \in OptField("mode", {"essay"}),
        ca \in OptField("clarification_answers", {"text"}) }

InitAnalyze ==
    /\ store = [k \in ThreadIds |-> EmptyDict]
    /\ pc = [c \in Callers |-> "idle"]
    /\ inp = [c \in Callers |-> NoArgs]
    /\ executed = [c \in Callers |-> <<>>]
    /\ prevHalt = [c \in Callers |-> "START"]
    /\ script = [c \in Callers |-> 0]
    /\ heard = [c \in Callers |-> <<>>]
    /\ raised = [c \in Callers |-> "none"]
    /\ thread = [c \in Callers |-> [arg |-> None, id |-> ""]]
    /\ local \in { [c \in Callers |-> IF c \in Threads THEN r ELSE EmptyDict] :
                     r \in AnalyzeStates }

\* the analyze node runs once on the record and its update is merged
ApplyAnalyze(t) ==
    \E analysis \in AnalyzeTexts :
        /\ pc[t] = "idle"
        /\ executed[t] = <<>>
        /\ local' = [local EXCEPT ![t] = Merge(@, analyze_topic(@, analysis))]
        /\ executed' = [executed EXCEPT ![t] = <<"analyze">>]
        /\ heard' = [heard EXCEPT ![t] = <<analysis>>]
        /\ UNCHANGED <<store, pc, inp, prevHalt, script, raised, thread>>

NextAnalyze == \E t \in Threads : ApplyAnalyze(t)

SpecAnalyze == InitAnalyze /\ [][NextAnalyze]_vars

(***************************************************************************)
(* Vocabulary of the properties                                            *)
(***************************************************************************)
\* a call on thread t has returned
Done(t) == pc[t] = "idle" /\ executed[t] # <<>>

\* a call on thread t has been made (it may still be running)
Called(t) == pc[t] # "idle" \/ executed[t] # <<>>

\* the current / latest call on thread t has executed node n
Ran(t, n) == \E i \in 1..Len(executed[t]) : executed[t][i] = n

\* the stage nodes the current / latest call on thread t has executed
StagesRun(t) == { n \in StageNodes : Ran(t, n) }

\* the call passes nothing but user_input
NoNewFields(a) == Supplied(a) = {} /\ NoSkips(a)

\* the call passes exactly the skip flag f, and no optional argument
SkipsOnly(a, f) ==
    Supplied(a) = {} /\ \A g \in SkipArgNames : a[g] <=> (g = f)

\* the call passes only the resuming input of gate g
Resumes(a, g) ==
    CASE g = "stop_after_analyze" ->
             \/ SuppliesOnly(a, "clarification_answers")
             \/ SkipsOnly(a, "skip_clarification")
      [] g = "stop_after_plan_review" ->
             \/ SuppliesOnly(a, "plan_feedback")
             \/ SkipsOnly(a, "skip_plan_review")
      [] g = "stop_after_critic" ->
             \/ SuppliesOnly(a, "draft_approved")
             \/ SkipsOnly(a, "skip_draft_review")

\* the gates that are not after gate g in the graph
UpTo(g) ==
    CASE g = "stop_after_analyze" -> {"stop_after_analyze"}
      [] g = "stop_after_plan_review" ->
             {"stop_after_analyze", "stop_after_plan_review"}
      [] g = "stop_after_critic" -> GateNodes

\* the stages the docstring of run_essay_graph lists for the call that
\* resumes gate g
StagesAfter(g) ==
    CASE g = "stop_after_analyze" -> {"plan", "plan_review"}
      [] g = "stop_after_plan_review" -> {"research", "write", "critic"}
      [] g = "stop_after_critic" -> {"save", "finalize"}

IsEssay(t) == "mode" \in DOMAIN store[t] /\ store[t]["mode"] = "essay"

Has(t, f) == f \in DOMAIN store[t]

(***************************************************************************)
(* C1  Idempotent resume.  When a call that passes nothing but user_input  *)
(* follows a call that halted at a gate, it executes no stage node, and    *)
(* no step of it changes the StateRecord, so that it returns the record    *)
(* the previous call returned.                                             *)
(***************************************************************************)
C1_IdempotentResume ==
    /\ [](\A t \in Threads :
            (Done(t) /\ prevHalt[t] \in GateNodes /\ NoNewFields(inp[t]))
                => StagesRun(t) = {})
    /\ [][\A t \in Threads :
            (prevHalt'[t] \in GateNodes /\ NoNewFields(inp'[t]))
                => store'[t] = store[t]]_vars

(***************************************************************************)
(* C2  Resume at the halted position.  A call that follows a halt at gate  *)
(* G and passes only G's resuming input executes only the stages the       *)
(* docstring lists after G (plan, plan_review / research, write, critic /  *)
(* save, finalize): no stage of an earlier call is executed again.         *)
(***************************************************************************)
C2_ResumesAtPosition ==
    \A t \in Threads :
        (Called(t) /\ prevHalt[t] \in GateNodes /\ Resumes(inp[t], prevHalt[t]))
            => StagesRun(t) \subseteq StagesAfter(prevHalt[t])

(***************************************************************************)
(* C3  End-to-end scenario B.  On an essay thread the four calls of the    *)
(* HITL script (user_input only; then only clarification_answers; then     *)
(* only plan_feedback; then only draft_approved=true) halt at              *)
(* stop_after_analyze, stop_after_plan_review, stop_after_critic, and the  *)
(* fourth ends with finalize and returns answer with final_approved=true.  *)
(***************************************************************************)
C3_ScenarioB ==
    \A t \in Threads :
        (Done(t) /\ IsEssay(t)) =>
            /\ script[t] = 1 => LastNode(t) = "stop_after_analyze"
            /\ script[t] = 2 => LastNode(t) = "stop_after_plan_review"
            /\ script[t] = 3 => LastNode(t) = "stop_after_critic"
            /\ script[t] = 4 =>
                 /\ LastNode(t) = "finalize"
                 /\ "answer" \in DOMAIN Returned(t)
                 /\ "final_approved" \in DOMAIN Returned(t)
                 /\ Returned(t)["final_approved"] = TRUE

C3_Witness ==
    \E t \in Threads :
        Done(t) /\ IsEssay(t) /\ script[t] = 4 /\ LastNode(t) = "finalize"

(***************************************************************************)
(* C4  Three-valued approval.                                              *)
(* As claimed: on a fresh thread draft_approved is absent, and whenever    *)
(* skip_draft_review is false and draft_approved is not explicitly true    *)
(* (absent or false) neither save nor finalize executes and a call that    *)
(* ran critic halts at stop_after_critic.                                  *)
(***************************************************************************)
SkipDraftReview(t) == Get(store[t], "skip_draft_review", FALSE)
ApprovedIs(t, b) == Has(t, "draft_approved") /\ store[t]["draft_approved"] = b

C5_GateResumption ==
    \A t \in Threads :
        (Done(t) /\ prevHalt[t] \in GateNodes /\ Resumes(inp[t], prevHalt[t]))
            => LastNode(t) \notin UpTo(prevHalt[t])

(***************************************************************************)
(* C6  Merge rule for skip flags.  A call that does not pass a skip flag   *)
(* leaves the stored value of that flag unchanged.                         *)
(***************************************************************************)
C6_SkipFlagsKept ==
    [][\A t \in Threads : \A f \in SkipArgNames :
          (Has(t, f) /\ ~inp'[t][f]) => (store'[t][f] = store[t][f])]_vars

(***************************************************************************)
(* C7  Field-merge non-destructiveness.  For clarification_answers,        *)
(* plan_feedback, draft_feedback_human and final_feedback: no step of a    *)
(* call that passes an empty string or nothing for the field changes a     *)
(* stored non-empty value of it.                                           *)
(***************************************************************************)
FeedbackTexts == {"clarification_answers", "plan_feedback",
                  "draft_feedback_human", "final_feedback"}

C7_MergeKeepsTexts ==
    [][\A t \in Threads : \A f \in FeedbackTexts :
          (Has(t, f) /\ Truthy(store[t][f]) /\ ~TruthyOpt(inp'[t][f]))
              => (f \in DOMAIN store'[t] /\ store'[t][f] = store[t][f])]_vars

C7_Witness ==
    \E t \in Threads :
        /\ Done(t)
        /\ \A f \in FeedbackTexts : Has(t, f) /\ Truthy(store[t][f])
        /\ \E f \in FeedbackTexts : inp[t][f] = Some("")

(***************************************************************************)
(* C8  user_input.                                                         *)
(* As claimed: once stored, user_input is never changed by a later call.   *)
(***************************************************************************)
C8_Original ==
    [][\A t \in Threads :
          Has(t, "user_input")
              => store'[t]["user_input"] = store[t]["user_input"]]_vars

(* C8 as amended: every call overwrites the stored user_input with the     *)
(* user_input it passes and no node changes it, so the stored user_input   *)
(* is always the one of the latest call.                                   *)
C8_UserInputOfLatestCall ==
    \A t \in Threads :
        Called(t) => (Has(t, "user_input")
                      /\ store[t]["user_input"] = inp[t].user_input)

C8_Witness ==
    \E t \in Threads :
        /\ Done(t) /\ prevHalt[t] # "START" /\ Ran(t, "analyze")
        /\ store[t]["user_input"] = "Write about Y"
        /\ store[t]["topic"] = "topic1"

(***************************************************************************)
(* C9  Monotonic plan_validated.  Once the stored plan_validated is true   *)
(* no step (call or node) sets it to false or removes it.                  *)
(***************************************************************************)
PlanValidated(t) == Has(t, "plan_validated") /\ store[t]["plan_validated"]

C9_PlanValidatedMonotonic ==
    [][\A t \in Threads :
          PlanValidated(t)
              => ("plan_validated" \in DOMAIN store'[t]
                  /\ store'[t]["plan_validated"])]_vars

C9_Witness ==
    \E t \in Threads :
        /\ Done(t) /\ PlanValidated(t)
        /\ prevHalt[t] = "finalize" /\ LastNode(t) = "stop_after_analyze"

(***************************************************************************)
(* C10  End-to-end scenario A.  On a fresh essay thread one call with the  *)
(* three skip flags true executes classify, analyze, plan, plan_review,    *)
(* research, write, critic, save, finalize in that order and no gate       *)
(* node, and returns final_approved=true and an answer.                    *)
(***************************************************************************)
AllSkips(a) == \A f \in SkipArgNames : a[f]

FullRun == <<"classify", "analyze", "plan", "plan_review", "research",
             "write", "critic", "save", "finalize">>

C10_ScenarioA ==
    \A t \in Threads :
        (Done(t) /\ prevHalt[t] = "START" /\ AllSkips(inp[t]) /\ IsEssay(t)) =>
            /\ executed[t] = FullRun
            /\ "answer" \in DOMAIN Returned(t)
            /\ "final_approved" \in DOMAIN Returned(t)
            /\ Returned(t)["final_approved"] = TRUE

C10_Witness ==
    \E t \in Threads :
        /\ Done(t) /\ prevHalt[t] = "START" /\ AllSkips(inp[t]) /\ IsEssay(t)
        /\ executed[t] = FullRun

(***************************************************************************)
(* C13  GATE_analyze is reached exactly when it should be                  *)
(***************************************************************************)
\* the text field f of thread t is absent or blank
Blank(t, f) == ~Truthy(Strip(Get(store[t], f, "")))

\* the stored flag f of thread t (False when absent)
Flag(t, f) == Get(store[t], f, FALSE)

\* C13: a returned call on an essay-mode thread has halted at
\* stop_after_analyze, right after analyze, if and only if the merged record
\* has absent or blank clarification_answers and a false skip_clarification;
\* otherwise plan is the node that followed analyze.
C13_AnalyzeGateExact ==
    \A t \in Threads :
        (Done(t) /\ IsEssay(t)) =>
            LET halt == Blank(t, "clarification_answers")
                        /\ ~Flag(t, "skip_clarification")
            IN /\ (LastNode(t) = "stop_after_analyze") <=> halt
               /\ halt => executed[t] = <<"classify", "analyze",
                                          "stop_after_analyze">>
               /\ ~halt => /\ Len(executed[t]) >= 3
                           /\ SubSeq(executed[t], 1, 3) =
                                  <<"classify", "analyze", "plan">>

\* a call halted at the gate on answers that are present but blank
C13_Witness ==
    \E t \in Threads :
        /\ Done(t) /\ IsEssay(t)
        /\ LastNode(t) = "stop_after_analyze"
        /\ Has(t, "clarification_answers")
        /\ store[t]["clarification_answers"] = " "

(***************************************************************************)
(* C14  mode is set at most once per thread                                *)
(***************************************************************************)
ModeSet(t) == Has(t, "mode") /\ store[t]["mode"] \in {"essay", "open_question"}

\* C14: once the stored mode of a thread is essay or open_question, no step
\* changes it, and an execution of classify leaves the whole record as it
\* was, so the thread stays on the branch its first classification chose.
C14_ModeSetOnce ==
    [][\A t \in Threads :
          ModeSet(t) =>
              /\ "mode" \in DOMAIN store'[t]
              /\ store'[t]["mode"] = store[t]["mode"]
              /\ (pc[t] = "classify" /\ pc'[t] # "classify")
                     => store'[t] = store[t]]_vars

\* a later call has run classify on a thread classified as open_question
C14_Witness ==
    \E t \in Threads :
        /\ Done(t)
        /\ prevHalt[t] = "basic_reply"
        /\ Ran(t, "classify")
        /\ store[t]["mode"] = "open_question"

(***************************************************************************)
(* C15  plan_review and its gate                                           *)
(***************************************************************************)
\* C15 as stated: plan_review runs only in calls whose plan_feedback is
\* non-blank or whose skip_plan_review is true, and plan_validated is never
\* true in the record returned by a call that halted at
\* stop_after_plan_review.
C15_Original ==
    \A t \in Threads :
        /\ Ran(t, "plan_review") =>
               (~Blank(t, "plan_feedback") \/ Flag(t, "skip_plan_review"))
        /\ (Done(t) /\ LastNode(t) = "stop_after_plan_review") =>
               ~Get(Returned(t), "plan_validated", FALSE)

\* C15, amended: plan_review runs before its gate is evaluated.  Every call
\* that has run plan and returned has run plan_review right after it, and
\* the record returned by a call that halted at stop_after_plan_review has
\* plan_validated true while plan_feedback is absent or blank and
\* skip_plan_review is false.
C15_PlanReviewBeforeGate ==
    \A t \in Threads :
        /\ (Done(t) /\ Ran(t, "plan")) =>
               \E i \in 1..(Len(executed[t]) - 1) :
                   /\ executed[t][i] = "plan"
                   /\ executed[t][i + 1] = "plan_review"
        /\ (Done(t) /\ LastNode(t) = "stop_after_plan_review") =>
               /\ Get(Returned(t), "plan_validated", FALSE)
               /\ Blank(t, "plan_feedback")
               /\ ~Flag(t, "skip_plan_review")

\* a call halted at stop_after_plan_review, on a blank plan_feedback, and
\* returned a validated plan
C15_Witness ==
    \E t \in Threads :
        /\ Done(t)
        /\ LastNode(t) = "stop_after_plan_review"
        /\ Ran(t, "plan_review")
        /\ Has(t, "plan_feedback") /\ store[t]["plan_feedback"] = " "
        /\ PlanValidated(t)

(***************************************************************************)
(* C16  saved is set true exactly once per thread                          *)
(***************************************************************************)
\* C16: over any sequence of calls on a thread the save node executes at
\* most once: no execution of save starts from a record whose saved is
\* already true.
C16_SaveOnce ==
    [][\A t \in Threads :
          (pc[t] = "save" /\ pc'[t] # "save") =>
              ~Get(store[t], "saved", FALSE)]_vars

(***************************************************************************)
(* C17  a gate node never mutates the record                               *)
(***************************************************************************)
\* C17: the execution of stop_after_analyze, stop_after_plan_review or
\* stop_after_critic leaves every field of the record unchanged, in the
\* call's channels and in the checkpoint, so the record a halting call
\* returns is the record the router looked at when it chose the gate.
C17_GateNodeFrame ==
    [][\A t \in Threads :
          (pc[t] \in GateNodes /\ pc'[t] # pc[t]) =>
              /\ local'[t] = local[t]
              /\ store'[t] = store[t]
              /\ pc[t] = NextNode(executed[t][Len(executed[t])], local'[t])]_vars

\* a call halted at stop_after_critic and returned, after the call before
\* it had halted at stop_after_plan_review
C17_Witness ==
    \E t \in Threads :
        /\ Done(t)
        /\ LastNode(t) = "stop_after_critic"
        /\ prevHalt[t] = "stop_after_plan_review"
        /\ Returned(t) = Merge(store[t], [thread_id |-> t])

(***************************************************************************)
(* C18  caller-only fields are never written by a node                     *)
(***************************************************************************)
CallerFields == OptionalArgNames \cup SkipArgNames

\* the caller-only fields present in record d, with their values
CallerPart(d) == [f \in DOMAIN d \cap CallerFields |-> d[f]]

\* C18: the execution of a stage node or gate node, with the router that
\* follows it, neither sets nor changes nor removes draft_approved,
\* clarification_answers, plan_feedback, draft_feedback_human,
\* final_feedback or a skip flag, in the call's channels and in the
\* checkpoint.
C18_CallerFieldsFrame ==
    [][\A t \in Threads :
          (pc[t] \in StageNodes \cup GateNodes /\ pc'[t] # pc[t]) =>
              /\ CallerPart(local'[t]) = CallerPart(local[t])
              /\ CallerPart(store'[t]) = CallerPart(store[t])]_vars

\* a call ran the graph to finalize on a record that holds answers and plan
\* feedback, and no node has set the approval or the feedback fields the
\* callers never passed
C18_Witness ==
    \E t \in Threads :
        /\ Done(t)
        /\ Ran(t, "critic") /\ Ran(t, "finalize")
        /\ DOMAIN CallerPart(store[t]) =
               {"clarification_answers", "plan_feedback"} \cup SkipArgNames

(***************************************************************************)
(* C19  routing default of classify                                        *)
(***************************************************************************)
\* the keyword classify_intent takes for a variant of open_question
OpenQuestionKeyword == "open"

\* the call of thread t has just classified the request: classify was its
\* latest super-step and the language model answered in it
JustClassified(t) == LastNode(t) = "classify" /\ Len(heard[t]) = 1

\* C19: right after a classification, mode is essay when the lower-cased
\* reply contains "essay", open_question when it does not but contains the
\* open_question keyword, essay when it contains neither; the call goes on
\* to analyze when mode is essay and to basic_reply otherwise.
C19_ClassifyDefault ==
    \A t \in Threads :
        JustClassified(t) =>
            LET reply == Lower(heard[t][1])
                mode == IF Contains(reply, "essay") THEN "essay"
                        ELSE IF Contains(reply, OpenQuestionKeyword)
                             THEN "open_question"
                        ELSE "essay"
            IN /\ Has(t, "mode") /\ store[t]["mode"] = mode
               /\ pc[t] = IF mode = "essay" THEN "analyze" ELSE "basic_reply"

\* a reply with neither keyword has been classified and routed to analyze
C19_Witness ==
    \E t \in Threads :
        /\ JustClassified(t)
        /\ heard[t][1] = "just answer please"
        /\ pc[t] = "analyze"

(***************************************************************************)
(* C20  search fallback                                                    *)
(***************************************************************************)
EndsWith(s, suffix) ==
    /\ Len(s) >= Len(suffix)
    /\ SubSeq(s, Len(s) - Len(suffix) + 1, Len(s)) = suffix

\* the call of thread t has just run research and its web search raised
SearchJustFailed(t) ==
    LastNode(t) = "research" /\ Len(heard[t]) = 1 /\ ~heard[t][1].ok

\* C20: when the web search raised and the language model answered, the
\* research step has completed: research_notes is stored and ends with the
\* failure marker carrying the error, and the call goes on to write.
C20_SearchFallback ==
    \A t \in Threads :
        SearchJustFailed(t) =>
            /\ Has(t, "research_notes")
            /\ EndsWith(store[t]["research_notes"],
                        FailureMarker(heard[t][1].text))
            /\ pc[t] = "write"
            /\ pc[t] \notin GateNodes \cup {"END", "error"}

\* a call whose web search raised has gone on to write and critic
C20_Witness ==
    \E t \in Threads :
        /\ Ran(t, "write") /\ Ran(t, "critic")
        /\ Has(t, "research_notes")
        /\ EndsWith(store[t]["research_notes"],
                    FailureMarker("ValueError: no API key"))

(***************************************************************************)
(* C12  failure of the language model and retry                            *)
(***************************************************************************)
\* the call of thread t is a retry of a call that raised, and has executed
\* at least one node
Retrying(t) ==
    raised[t] # "none" /\ pc[t] # "error" /\ executed[t] # <<>>

\* C12: when the language model fails in a node other than research the
\* call ends with an error and leaves the checkpoint as the last completed
\* node wrote it, and the retry of the call starts with the node that
\* raised, executing none of the nodes the failed call had completed.
C12_RetryResumes ==
    /\ [][\A t \in Threads :
             (pc[t] \in StageNodes \ {"research"} /\ pc'[t] = "error") =>
                 store'[t] = store[t]]_vars
    /\ [](\A t \in Threads :
             (Retrying(t) /\ raised[t] # "research") =>
                 executed[t][1] = raised[t])

(***************************************************************************)
(* C11  per-thread mutual exclusion                                        *)
(***************************************************************************)
\* caller c is inside graph.invoke
InFlight(c) == pc[c] \notin {"idle", "error"}

\* C11: two calls on one thread never overlap, so that once the calls on a
\* thread have returned, the checkpoint holds every field of the records
\* they returned.
C11_MutualExclusion ==
    \A c1 \in Callers : \A c2 \in Callers \ {c1} :
        ThreadOf(c1) = ThreadOf(c2) =>
            /\ ~(InFlight(c1) /\ InFlight(c2))
            /\ (Done(c1) /\ ~InFlight(c2)) =>
                   DOMAIN local[c1] \subseteq DOMAIN store[ThreadOf(c1)]

(***************************************************************************)
(* C21  finalize                                                           *)
(***************************************************************************)
\* C21: once finalize has run in a call, final_approved is true and answer
\* equals final_draft; when neither final_feedback nor human_feedback is
\* present, final_draft equals the stored draft and finalize has not asked
\* the language model.
C21_Finalize ==
    \A t \in Threads :
        LastNode(t) = "finalize" =>
            /\ Has(t, "final_approved") /\ store[t]["final_approved"]
            /\ Has(t, "answer") /\ Has(t, "final_draft")
            /\ store[t]["answer"] = store[t]["final_draft"]
            /\ (~Has(t, "final_feedback") /\ ~Has(t, "human_feedback")) =>
                   /\ store[t]["final_draft"] = Get(store[t], "draft", "")
                   /\ heard[t] = <<>>

\* a call without final feedback has finalized the draft it wrote
C21_Witness ==
    \E t \in Threads :
        /\ Done(t)
        /\ LastNode(t) = "finalize"
        /\ ~Has(t, "final_feedback")
        /\ store[t]["final_draft"] = "draft B"
        /\ heard[t] = <<>>

(***************************************************************************)
(* C22  basic_reply bypasses every other stage                             *)
(***************************************************************************)
\* fields written by the stages of the essay branch
EssayFields == {"topic", "instructions", "clarification_questions", "plan",
                "plan_validated", "research_notes", "clarifications_used",
                "draft", "critique", "saved", "final_draft", "final_approved"}

\* C22: on a thread whose mode is open_question a call executes classify and
\* then basic_reply and nothing else, and the record holds none of the
\* fields of the essay branch (topic, plan, draft, critique, saved,
\* final_approved among them).
C22_BasicReplyBypass ==
    \A t \in Threads :
        (Has(t, "mode") /\ store[t]["mode"] = "open_question") =>
            /\ executed[t] \in {<<>>, <<"classify">>,
                                <<"classify", "basic_reply">>}
            /\ pc[t] \in {"idle", "classify", "basic_reply", "END"}
            /\ Done(t) => executed[t] = <<"classify", "basic_reply">>
            /\ DOMAIN store[t] \cap EssayFields = {}

\* a second call on an open_question thread has answered again
C22_Witness ==
    \E t \in Threads :
        /\ Done(t)
        /\ store[t]["mode"] = "open_question"
        /\ prevHalt[t] = "basic_reply"
        /\ executed[t] = <<"classify", "basic_reply">>
        /\ Has(t, "answer") /\ ~Has(t, "topic")

(***************************************************************************)
(* C23  thread_id handling                                                 *)
(***************************************************************************)
\* caller c enters graph.invoke in this step
Enters(c) == pc[c] \in {"idle", "error"} /\ pc'[c] \notin {"idle", "error"}

\* caller c executes a node in this step
Steps(c) == pc[c] \in StageNodes \cup GateNodes /\ pc'[c] # pc[c]

\* the step touches no checkpoint but that of thread id, which it sets to
\* the channel values of caller c
PersistsUnder(c, id) ==
    /\ store'[id] = local'[c]
    /\ \A k \in ThreadIds \ {id} : store'[k] = store[k]

\* C23: a call with a non-empty thread_id loads the record stored under
\* that identifier and persists under it alone; a call with an empty or
\* None thread_id gets an identifier no thread had, keeps it for the whole
\* call and starts from the empty record; the returned record carries the
\* identifier of the call.
C23_ThreadId ==
    /\ [][\A c \in Callers :
             Enters(c) =>
                 LET arg == thread'[c].arg
                     id == thread'[c].id
                 IN /\ PersistsUnder(c, id)
                    /\ TruthyOpt(arg) =>
                           /\ id = arg[1]
                           /\ local'[c] = Merge(store[id], initial_state(inp'[c]))
                    /\ ~TruthyOpt(arg) =>
                           /\ id \in Generated
                           /\ store[id] = EmptyDict
                           /\ \A d \in Callers : thread[d].id # id
                           /\ local'[c] = initial_state(inp'[c])]_vars
    /\ [][\A c \in Callers :
             Steps(c) =>
                 /\ thread'[c] = thread[c]
                 /\ PersistsUnder(c, thread[c].id)]_vars
    /\ [](\A c \in Callers :
             Done(c) =>
                 /\ Returned(c)["thread_id"] = thread[c].id
                 /\ TruthyOpt(thread[c].arg) =>
                        Returned(c)["thread_id"] = thread[c].arg[1])

\* a call with an empty thread_id has returned the second generated
\* identifier, and the thread generated before it still holds its record
C23_Witness ==
    \E c \in Callers :
        /\ Done(c)
        /\ thread[c].arg = Some("")
        /\ Returned(c)["thread_id"] = "uuid-2"
        /\ store["uuid-1"] # EmptyDict
        /\ store["uuid-2"] = local[c]

(***************************************************************************)
(* C24  routers return declared labels                                     *)
(***************************************************************************)
\* C24: on every record, with absent, empty, false or unexpected fields,
\* each router returns a key of the label map of its node, and the
\* conditional edge evaluated on the record leads to a node of the graph.
C24_RoutersTotal ==
    \A t \in Threads :
        /\ \A node \in RouterNodes :
               Router(node, local[t]) \in DOMAIN Edges(node)
        /\ pc[t] \in {"idle"} \cup StageNodes \cup GateNodes

\* the router of critic has stopped a run whose record holds neither a
\* decision nor a skip flag and an empty mode
C24_Witness ==
    \E t \in Threads :
        /\ executed[t] = <<"critic">>
        /\ pc[t] = "stop_after_critic"
        /\ "draft_approved" \notin DOMAIN local[t]
        /\ "skip_draft_review" \notin DOMAIN local[t]
        /\ Get(local[t], "mode", "absent") = ""

(***************************************************************************)
(* C25  plan_review without feedback leaves the plan untouched             *)
(***************************************************************************)
\* C25: when plan_feedback is absent or blank, the execution of plan_review
\* writes plan_validated = true and nothing else, so the stored plan stays
\* as it was; when plan_feedback is non-blank it writes the revised plan the
\* language model returned and plan_validated = true, and nothing else.
C25_PlanReviewFrame ==
    [][\A t \in Threads :
          (pc[t] = "plan_review" /\ pc'[t] # "plan_review") =>
              IF Blank(t, "plan_feedback")
              THEN /\ store'[t] = Merge(store[t], [plan_validated |-> TRUE])
                   /\ Get(store'[t], "plan", "") = Get(store[t], "plan", "")
                   /\ heard'[t] = <<>>
              ELSE /\ Len(heard'[t]) = 1
                   /\ store'[t] = Merge(store[t], [plan |-> heard'[t][1],
                                                   plan_validated |-> TRUE])]_vars

\* plan_review has run on a blank plan_feedback and the plan is the one
\* plan wrote
C25_Witness ==
    \E t \in Threads :
        /\ LastNode(t) = "plan_review"
        /\ Has(t, "plan_feedback") /\ store[t]["plan_feedback"] = " "
        /\ store[t]["plan"] = "plan text"
        /\ PlanValidated(t)

(***************************************************************************)
(* C26  failures surface as an error payload, the record stays             *)
(***************************************************************************)
\* the fields a node writes when it completes (classify and plan_review
\* write less when they have nothing to do)
WrittenBy(node) ==
    CASE node = "analyze" -> {"topic", "instructions", "clarification_questions"}
      [] node = "plan" -> {"plan"}
      [] node = "plan_review" -> {"plan_validated"}
      [] node = "research" -> {"research_notes", "clarifications_used"}
      [] node = "write" -> {"draft"}
      [] node = "critic" -> {"critique"}
      [] node = "save" -> {"saved"}
      [] node = "finalize" -> {"final_draft", "final_approved", "answer"}
      [] node = "basic_reply" -> {"answer"}
      [] OTHER -> {}

\* C26: when a step of a call fails, the transport answers with a JSON
\* error payload and not with an exception, the failing step has left the
\* checkpoint of the thread as it was, and that checkpoint holds the
\* channel values of the call with every field the completed nodes wrote.
C26_ErrorPayload ==
    /\ [](\A t \in Threads :
             pc[t] = "error" =>
                 /\ run_agent(t).kind = "json"
                 /\ run_agent(t).status_code = 500
                 /\ DOMAIN run_agent(t).content = {"error"}
                 /\ store[thread[t].id] = local[t]
                 /\ \A i \in 1..Len(executed[t]) :
                        WrittenBy(executed[t][i]) \subseteq
                            DOMAIN store[thread[t].id])
    /\ [][\A t \in Threads :
             (pc[t] # "error" /\ pc'[t] = "error") => store' = store]_vars

\* a call raised in critic and the draft written before is in the checkpoint
C26_Witness ==
    \E t \in Threads :
        /\ pc[t] = "error"
        /\ raised[t] = "critic"
        /\ LastNode(t) = "write"
        /\ Has(t, "draft")

(***************************************************************************)
(* C27  unparseable analyze output                                         *)
(***************************************************************************)
\* the lines of the reply that open the section `name`
SectionLines(analysis, name) ==
    { i \in 1..Len(analysis) : StartsWith(Strip(Upper(analysis[i])), name) }

\* the reply has no TOPIC section, or only empty ones
NoTopic(analysis) ==
    \A i \in SectionLines(analysis, "TOPIC:") :
        Strip(AfterColon(analysis[i])) = ""

\* analyze has just run on thread t and heard `analysis`
Analyzed(t) == executed[t] = <<"analyze">> /\ Len(heard[t]) = 1

\* C27: when the analyze reply has no TOPIC section or an empty one,
\* analyze completes and sets topic to the raw user_input verbatim, and
\* instructions / clarification_questions are empty strings when their
\* sections are missing from the reply.
C27_RawTopicFallback ==
    \A t \in Threads :
        (Analyzed(t) /\ NoTopic(heard[t][1])) =>
            /\ local[t]["topic"] = local[t]["user_input"]
            /\ SectionLines(heard[t][1], "INSTRUCTIONS:") = {} =>
                   local[t]["instructions"] = ""
            /\ SectionLines(heard[t][1], "CLARIFICATION_QUESTIONS") = {} =>
                   local[t]["clarification_questions"] = ""

(***************************************************************************)
(* C28  critic writes the critique only                                    *)
(***************************************************************************)
\* C28: executing critic adds the critique it obtained to the record and
\* changes nothing else: the draft and every other field of the channel
\* values and of the checkpoint are as before the node ran.
C28_CriticFrame ==
    [][\A t \in Threads :
          (pc[t] = "critic" /\ pc'[t] \notin {"critic", "error"}) =>
              /\ Len(heard'[t]) = 1
              /\ local'[t] = Merge(local[t], [critique |-> heard'[t][1]])
              /\ store'[t] = Merge(store[t], [critique |-> heard'[t][1]])
              /\ "draft" \in DOMAIN store[t]
              /\ store'[t]["draft"] = store[t]["draft"]]_vars

\* critic was the latest node to run, and the draft and the plan are still
\* in the record next to the critique
C28_Witness ==
    \E t \in Threads :
        /\ LastNode(t) = "critic"
        /\ Has(t, "draft")
        /\ Has(t, "critique")
        /\ Has(t, "plan")

(***************************************************************************)
(* C29  every call runs to completion                                      *)
(***************************************************************************)
\* the nodes a call may end on
EndNodes == GateNodes \cup {"finalize", "basic_reply"}

\* the run of thread t can take its next step: it stands at a node of the
\* graph or at END.  A node waits for nothing but its collaborator's reply
\* (the node actions are guarded by pc alone), so the step is taken as soon
\* as the reply is there.
CanStep(t) == pc[t] \in StageNodes \cup GateNodes \cup {"END"}

\* C29: a call that has started can always take its next step until it
\* returns, it takes a bounded number of steps (so it terminates when every
\* collaborator call returns), and it returns only after it has executed
\* one of stop_after_analyze, stop_after_plan_review, stop_after_critic,
\* finalize or basic_reply as its last node: never from the middle of the
\* graph.
C29_RunsToCompletion ==
    /\ [](\A t \in Threads :
             /\ pc[t] # "idle" => CanStep(t)
             /\ Len(executed[t]) <= Cardinality(StageNodes \cup GateNodes)
             /\ Done(t) => LastNode(t) \in EndNodes)
    /\ [][\A t \in Threads :
             /\ (CanStep(t) /\ pc[t] # "END" /\ pc'[t] # pc[t]) =>
                    Len(executed'[t]) = Len(executed[t]) + 1
             /\ (pc[t] # "idle" /\ pc'[t] = "idle") =>
                    /\ pc[t] = "END"
                    /\ LastNode(t) \in EndNodes
                    /\ executed'[t] = executed[t]]_vars

\* a call has returned after halting at the plan review gate
C29_Witness ==
    \E t \in Threads :
        /\ Done(t)
        /\ LastNode(t) = "stop_after_plan_review"
        /\ Ran(t, "plan_review")
        /\ ~Ran(t, "research")

(***************************************************************************)
(* C30  the compiled graph is acyclic                                      *)
(***************************************************************************)
\* the stage nodes among the nodes the current / latest call has executed,
\* in order
StagesExecuted(t) == SelectSeq(executed[t], LAMBDA n : n \in StageNodes)

\* C30: within one call no node executes more than once, the call executes
\* at most 9 stage nodes, and the number of steps it takes stays below
\* DEFAULT_RECURSION_LIMIT.
C30_Acyclic ==
    \A t \in Threads :
        /\ \A i, j \in 1..Len(executed[t]) :
               executed[t][i] = executed[t][j] => i = j
        /\ Len(StagesExecuted(t)) <= 9
        /\ Len(executed[t]) < DEFAULT_RECURSION_LIMIT

\* a call went through the whole graph: nine stage nodes, finalize last
C30_Witness ==
    \E t \in Threads :
        /\ Len(StagesExecuted(t)) = 9
        /\ Len(executed[t]) = 9
        /\ LastNode(t) = "finalize"

(***************************************************************************)
(* C31  the approved draft is the finalized draft                          *)
(***************************************************************************)
\* the current / latest call on thread t follows a halt at the critic gate
\* and passes draft_approved=true with neither final_feedback nor
\* draft_feedback_human
ApprovesDraft(t) ==
    /\ Called(t)
    /\ prevHalt[t] = "stop_after_critic"
    /\ inp[t].draft_approved = Some(TRUE)
    /\ IsNone(inp[t].final_feedback)
    /\ IsNone(inp[t].draft_feedback_human)

\* C31: when a call halted at GATE_critic returning draft D and the next
\* call on the thread approves it without feedback, that call returns D as
\* answer and as final_draft.  D is the draft in the checkpoint when the
\* approving call starts, so: no step of the approving call replaces the
\* stored draft, and the call returns with answer and final_draft equal to
\* it.
C31_ApprovedDraftFinalized ==
    /\ [][\A t \in Threads :
             (ApprovesDraft(t) /\ pc[t] # "idle") =>
                 Get(store'[t], "draft", "") = Get(store[t], "draft", "")]_vars
    /\ [](\A t \in Threads :
             (ApprovesDraft(t) /\ Done(t)) =>
                 /\ {"answer", "final_draft", "draft"} \subseteq
                        DOMAIN Returned(t)
                 /\ Returned(t)["answer"] = Returned(t)["draft"]
                 /\ Returned(t)["final_draft"] = Returned(t)["draft"])

(***************************************************************************)
(* C32  essay-mode exit invariant                                          *)
(***************************************************************************)
\* the checkpoint of thread t holds f with the value TRUE
Flagged(t, f) == Has(t, f) /\ store[t][f] = TRUE

\* C32: in every checkpoint of an essay-mode thread, an answer comes with
\* final_approved=true and saved=true, and saved=true comes with plan,
\* research_notes, draft and critique.  saved becomes true only in a call
\* that has skip_draft_review=true or on a record that holds a
\* draft_approved, and a draft_approved enters the record only with a call
\* that passes one: so some call on the thread had skip_draft_review=true or
\* a non-absent draft_approved.
C32_EssayExit ==
    /\ [](\A t \in Threads :
             IsEssay(t) =>
                 /\ Has(t, "answer") =>
                        Flagged(t, "final_approved") /\ Flagged(t, "saved")
                 /\ Flagged(t, "saved") =>
                        {"plan", "research_notes", "draft", "critique"}
                            \subseteq DOMAIN store[t])
    /\ [][\A t \in Threads :
             /\ (~Flagged(t, "saved") /\ Get(store'[t], "saved", FALSE)) =>
                    inp[t].skip_draft_review \/ Has(t, "draft_approved")
             /\ (~Has(t, "draft_approved")
                   /\ "draft_approved" \in DOMAIN store'[t]) =>
                    (pc[t] = "idle" /\ ~IsNone(inp'[t].draft_approved))]_vars

\* an essay thread got its answer in a call that passed draft_approved=false
\* and did not skip the draft review
C32_Witness ==
    \E t \in Threads :
        /\ IsEssay(t)
        /\ Done(t)
        /\ Has(t, "answer")
        /\ Flagged(t, "saved")
        /\ inp[t].draft_approved = Some(FALSE)
        /\ ~inp[t].skip_draft_review

(***************************************************************************)
(* C33  a halting call executes nothing downstream of its gate             *)
(***************************************************************************)
\* the fields the claim lists for each gate: those of the stages behind it
FieldsBehind(g) ==
    CASE g = "stop_after_analyze" ->
             {"plan", "plan_validated", "research_notes", "draft", "critique",
              "saved", "final_draft", "final_approved", "answer"}
      [] g = "stop_after_plan_review" ->
             {"research_notes", "draft", "critique", "saved", "final_draft",
              "final_approved", "answer"}
      [] g = "stop_after_critic" ->
             {"saved", "final_draft", "final_approved", "answer"}

\* every field a node may write (plan_review also writes plan when there is
\* feedback, classify writes mode when it classifies)
MayWrite(node) ==
    WrittenBy(node) \cup (CASE node = "plan_review" -> {"plan"}
                            [] node = "classify" -> {"mode"}
                            [] OTHER -> {})

\* field f is the same, or as absent, in records d and e
SameField(d, e, f) ==
    /\ (f \in DOMAIN d) <=> (f \in DOMAIN e)
    /\ f \in DOMAIN d => d[f] = e[f]

\* C33: a call that halts at a gate leaves the fields of the stages behind
\* that gate unchanged: entering the call changes none of the fields the
\* stages write, a step of a node changes only fields that node writes, and
\* the nodes a call has executed when it halts at a gate write none of the
\* fields behind the gate.
C33_NothingDownstream ==
    /\ [][\A t \in Threads :
             /\ (pc[t] = "idle" /\ pc'[t] # "idle") =>
                    \A f \in FieldsBehind("stop_after_analyze") :
                        SameField(store[t], store'[t], f)
             /\ (pc[t] \in StageNodes \cup GateNodes /\ pc'[t] # pc[t]) =>
                    \A f \in (DOMAIN store[t] \cup DOMAIN store'[t])
                                 \ MayWrite(pc[t]) :
                        SameField(store[t], store'[t], f)]_vars
    /\ [](\A t \in Threads :
             LastNode(t) \in GateNodes =>
                 \A i \in 1..Len(executed[t]) :
                     MayWrite(executed[t][i]) \cap FieldsBehind(LastNode(t))
                         = {})

\* calls halted at the critic gate and then, with the skip flags gone, at
\* the analyze gate, on a record that keeps the draft of the earlier call
C33_Witness ==
    \E t \in Threads :
        /\ Done(t)
        /\ LastNode(t) = "stop_after_analyze"
        /\ prevHalt[t] = "stop_after_critic"
        /\ Has(t, "draft")
        /\ ~Has(t, "saved")

(***************************************************************************)
(* C34  stored answers are sticky                                          *)
(***************************************************************************)
\* the gate that the text field f opens
GateOf(f) ==
    IF f = "clarification_answers" THEN "stop_after_analyze"
    ELSE "stop_after_plan_review"

GateTexts == {"clarification_answers", "plan_feedback"}

\* the call omits the text argument f or passes it as the empty string
OmitsOrEmpty(a, f) == IsNone(a[f]) \/ a[f] = Some("")

WhitespaceOnly(a, f) ==
    /\ ~IsNone(a[f])
    /\ Truthy(a[f][1])
    /\ ~Truthy(Strip(a[f][1]))

\* C35: a call that passes a whitespace-only clarification_answers or
\* plan_feedback when the checkpoint holds a non-blank value of it leaves
\* the stored value as it is, so the stored value stays non-blank and the
\* call does not halt at the gate that value had opened.
C35_BlankIsAbsent ==
    [][\A t \in Threads : \A f \in GateTexts :
          (pc[t] = "idle" /\ pc'[t] # "idle" /\ ~Blank(t, f)
             /\ WhitespaceOnly(inp'[t], f)) =>
              /\ SameField(store[t], store'[t], f)
              /\ route_from_analyze(store'[t]) = route_from_analyze(
                     Merge(store[t],
                           [skip_clarification |-> inp'[t].skip_clarification]))
              /\ route_from_plan_review(store'[t]) = route_from_plan_review(
                     Merge(store[t],
                           [skip_plan_review |-> inp'[t].skip_plan_review]))]_vars

(***************************************************************************)
(* C36  thread isolation                                                   *)
(***************************************************************************)
\* callers c and d have calls on distinct threads
OnDistinctThreads(c, d) ==
    Called(c) /\ Called(d) /\ thread[c].id # thread[d].id

\* the fields a call that executed `nodes` on a new thread can have written
FieldsOfRun(nodes) ==
    {"user_input"} \cup CallerFields
        \cup UNION { MayWrite(nodes[i]) : i \in 1..Len(nodes) }

\* C36: a step of a call on one thread leaves the checkpoint of every other
\* thread, and the position and channel values of the calls on them, as
\* they were; while calls on distinct threads interleave, the checkpoint of
\* each thread holds exactly the channel values of its own call, and the
\* record of a call on a new thread holds nothing but what the call passed
\* and what the nodes it executed wrote: what the call gives when it runs
\* alone.
C36_ThreadIsolation ==
    /\ [][\A c \in Callers : \A d \in Callers \ {c} :
             ((Enters(c) \/ Steps(c)) /\ thread[d].id # thread'[c].id) =>
                 /\ store'[thread[d].id] = store[thread[d].id]
                 /\ pc'[d] = pc[d]
                 /\ local'[d] = local[d]
                 /\ executed'[d] = executed[d]]_vars
    /\ [](\A c \in Callers : \A d \in Callers \ {c} :
             OnDistinctThreads(c, d) =>
                 /\ store[thread[c].id] = local[c]
                 /\ DOMAIN store[thread[c].id] \subseteq FieldsOfRun(executed[c]))

\* both callers are in the middle of their calls, on distinct threads, and
\* the two threads hold different records
C36_Witness ==
    \E c \in Callers : \E d \in Callers \ {c} :
        /\ OnDistinctThreads(c, d)
        /\ InFlight(c) /\ InFlight(d)
        /\ Ran(c, "plan") /\ Ran(d, "classify") /\ ~Ran(d, "plan")
        /\ store[thread[c].id] # store[thread[d].id]
        /\ "plan" \in DOMAIN store[thread[c].id]
        /\ "plan" \notin DOMAIN store[thread[d].id]

====
